---- MODULE Spec2Model ----
(***************************************************************************)
(* RotatingCube3d: main() of src/main.cpp as a sequential state machine.   *)
(* One action per native call (SDL_*, D3D11*, DXGI, device-context call)   *)
(* together with the status check that follows it.  The results of the     *)
(* native calls are the inputs; they are drawn from small sets.            *)
(* Strings are sequences of one-character strings so that concatenation,   *)
(* std::to_string and pointer arithmetic on a literal are computed.        *)
(***************************************************************************)
EXTENDS Integers, Sequences, FiniteSets

\* ------------------------------------------------------------------------
\* Bounds
\* ------------------------------------------------------------------------
\* number of frame-loop iterations explored
MaxFrames == 3

\* ------------------------------------------------------------------------
\* Program constants
\* ------------------------------------------------------------------------
S_OK == 0
SDL_QUIT == 256
NULL == 0

\* HRESULT is a 32-bit signed long; a 32-bit pattern is given as its high and
\* low 16-bit words and read as two's complement
AsHRESULT(w) == IF w[1] >= 32768 THEN (w[1] - 65536) * 65536 + w[2]
                ELSE w[1] * 65536 + w[2]

\* bit patterns the native calls are let to return:
\*   0x00000000 S_OK, 0x00000001 S_FALSE,
\*   0x80004005 E_FAIL, 0x887A0004 DXGI_ERROR_UNSUPPORTED
HResultBits == {<<0, 0>>, <<0, 1>>, <<32768, 16389>>, <<34938, 4>>}
HResults == {AsHRESULT(w) : w \in HResultBits}

\* results of IDXGISwapChain::Present: S_OK, DXGI_ERROR_UNSUPPORTED
PresentResults == {S_OK, AsHRESULT(<<34938, 4>>)}

\* SDL_Init returns 0 on success and a negative error code on failure
SdlInitResults == {0, -1}

\* event types SDL_PollEvent may store in e.type: SDL_QUIT, SDL_KEYDOWN
EventTypes == {SDL_QUIT, 768}

\* text SDL_GetError() may return
SdlErrorStrings == {<<"e","r","r">>}

\* what reading memory through an out-of-range char pointer may yield
IndeterminateStrings == {<< >>, <<"?">>}

\* ------------------------------------------------------------------------
\* String literals of the source
\* ------------------------------------------------------------------------
\* main.cpp:59  "Unable to initialize SDL: "
LogSdlInitFailed ==
  <<"U","n","a","b","l","e"," ","t","o"," ","i","n","i","t","i","a","l","i",
    "z","e"," ","S","D","L",":"," ">>

\* main.cpp:63  "SDL initialized..."
LogSdlInitialized ==
  <<"S","D","L"," ","i","n","i","t","i","a","l","i","z","e","d",".",".",
    ".">>

\* main.cpp:65  "Initializing main window..."
LogInitializingWindow ==
  <<"I","n","i","t","i","a","l","i","z","i","n","g"," ","m","a","i","n"," ",
    "w","i","n","d","o","w",".",".",".">>

\* main.cpp:78  "Unable to create main application window: "
LogWindowFailed ==
  <<"U","n","a","b","l","e"," ","t","o"," ","c","r","e","a","t","e"," ","m",
    "a","i","n"," ","a","p","p","l","i","c","a","t","i","o","n"," ","w","i",
    "n","d","o","w",":"," ">>

\* main.cpp:82  "Main application window created..."
LogWindowCreated ==
  <<"M","a","i","n"," ","a","p","p","l","i","c","a","t","i","o","n"," ","w",
    "i","n","d","o","w"," ","c","r","e","a","t","e","d",".",".",".">>

\* main.cpp:97  "Initializing Direct3D..."
LogInitializingDirect3d ==
  <<"I","n","i","t","i","a","l","i","z","i","n","g"," ","D","i","r","e","c",
    "t","3","D",".",".",".">>

\* main.cpp:102  "An error occured initialization Direct3D: "
LogDirect3dError ==
  <<"A","n"," ","e","r","r","o","r"," ","o","c","c","u","r","e","d"," ","i",
    "n","i","t","i","a","l","i","z","a","t","i","o","n"," ","D","i","r","e",
    "c","t","3","D",":"," ">>

\* main.cpp:142  "Initializing Direct3D Device and DeviceContext..."
LogInitializingDevice ==
  <<"I","n","i","t","i","a","l","i","z","i","n","g"," ","D","i","r","e","c",
    "t","3","D"," ","D","e","v","i","c","e"," ","a","n","d"," ","D","e","v",
    "i","c","e","C","o","n","t","e","x","t",".",".",".">>

\* main.cpp:182  "Initializing Direct3D swapchain..."
LogInitializingSwapChain ==
  <<"I","n","i","t","i","a","l","i","z","i","n","g"," ","D","i","r","e","c",
    "t","3","D"," ","s","w","a","p","c","h","a","i","n",".",".",".">>

\* main.cpp:173  "Error initializing device or device context. Error code: "
MsgDeviceCreation ==
  <<"E","r","r","o","r"," ","i","n","i","t","i","a","l","i","z","i","n","g",
    " ","d","e","v","i","c","e"," ","o","r"," ","d","e","v","i","c","e"," ",
    "c","o","n","t","e","x","t","."," ","E","r","r","o","r"," ","c","o","d",
    "e",":"," ">>

\* main.cpp:230  "Failed to retrive interface for IDXGIDevice. Error code: "
MsgDxgiDevice ==
  <<"F","a","i","l","e","d"," ","t","o"," ","r","e","t","r","i","v","e"," ",
    "i","n","t","e","r","f","a","c","e"," ","f","o","r"," ","I","D","X","G",
    "I","D","e","v","i","c","e","."," ","E","r","r","o","r"," ","c","o","d",
    "e",":"," ">>

\* main.cpp:237  "Failed to retrieve parent IDXGIAdapter from IDXGIDevice. Error code: "
MsgDxgiAdapter ==
  <<"F","a","i","l","e","d"," ","t","o"," ","r","e","t","r","i","e","v","e",
    " ","p","a","r","e","n","t"," ","I","D","X","G","I","A","d","a","p","t",
    "e","r"," ","f","r","o","m"," ","I","D","X","G","I","D","e","v","i","c",
    "e","."," ","E","r","r","o","r"," ","c","o","d","e",":"," ">>

\* main.cpp:245  "Failed to retrieve parent IDXGIFactory from IDXGIFactory. Error code: "
MsgDxgiFactory ==
  <<"F","a","i","l","e","d"," ","t","o"," ","r","e","t","r","i","e","v","e",
    " ","p","a","r","e","n","t"," ","I","D","X","G","I","F","a","c","t","o",
    "r","y"," ","f","r","o","m"," ","I","D","X","G","I","F","a","c","t","o",
    "r","y","."," ","E","r","r","o","r"," ","c","o","d","e",":"," ">>

\* main.cpp:252  "Failed to create swapchain. Error code: "
MsgSwapChain ==
  <<"F","a","i","l","e","d"," ","t","o"," ","c","r","e","a","t","e"," ","s",
    "w","a","p","c","h","a","i","n","."," ","E","r","r","o","r"," ","c","o",
    "d","e",":"," ">>

\* main.cpp:268  "Failed to retrieve swapchain back buffer. Error Code"
MsgGetBuffer ==
  <<"F","a","i","l","e","d"," ","t","o"," ","r","e","t","r","i","e","v","e",
    " ","s","w","a","p","c","h","a","i","n"," ","b","a","c","k"," ","b","u",
    "f","f","e","r","."," ","E","r","r","o","r"," ","C","o","d","e">>

\* main.cpp:275  "Failed to create render target view. Error Code: "
MsgRenderTargetView ==
  <<"F","a","i","l","e","d"," ","t","o"," ","c","r","e","a","t","e"," ","r",
    "e","n","d","e","r"," ","t","a","r","g","e","t"," ","v","i","e","w",".",
    " ","E","r","r","o","r"," ","C","o","d","e",":"," ">>

\* main.cpp:300  "Failed to create 2D texture for depth stencil buffer. Error Code: "
MsgTexture2D ==
  <<"F","a","i","l","e","d"," ","t","o"," ","c","r","e","a","t","e"," ","2",
    "D"," ","t","e","x","t","u","r","e"," ","f","o","r"," ","d","e","p","t",
    "h"," ","s","t","e","n","c","i","l"," ","b","u","f","f","e","r","."," ",
    "E","r","r","o","r"," ","C","o","d","e",":"," ">>

\* main.cpp:306  "Failed to create depth stencil view. Error Code: "
MsgDepthStencilView ==
  <<"F","a","i","l","e","d"," ","t","o"," ","c","r","e","a","t","e"," ","d",
    "e","p","t","h"," ","s","t","e","n","c","i","l"," ","v","i","e","w",".",
    " ","E","r","r","o","r"," ","C","o","d","e",":"," ">>
\* ------------------------------------------------------------------------
\* std::to_string(long) and string helpers
\* ------------------------------------------------------------------------
DigitChar == <<"0","1","2","3","4","5","6","7","8","9">>

RECURSIVE Digits(_)
Digits(n) == IF n < 10 THEN <<DigitChar[n + 1]>>
             ELSE Digits(n \div 10) \o <<DigitChar[(n % 10) + 1]>>

\* variant: the sign of a negative value is dropped
to_string_nosign(v) == IF v < 0 THEN Digits(-v) ELSE Digits(v)

\* std::to_string(long): "%ld"
to_string(v) == IF v < 0 THEN <<"-">> \o Digits(-v) ELSE Digits(v)

\* const char[N] + long: the literal is an array of Len(lit)+1 chars (NUL
\* terminated).  A pointer to element n of it read as a C string is the
\* suffix of the literal from offset n; any other offset is out of range.
InRange(lit, n) == n >= 0 /\ n <= Len(lit)
LiteralPlus(lit, n) == SubSeq(lit, n + 1, Len(lit))

\* reading a decimal numeral back (used to state what a message carries)
DigitValue(c) == CHOOSE d \in 0..9 : DigitChar[d + 1] = c
IsDigit(c) == \E d \in 0..9 : DigitChar[d + 1] = c
IsUnsignedNumeral(s) == Len(s) > 0 /\ \A i \in 1..Len(s) : IsDigit(s[i])
IsNumeral(s) == \/ IsUnsignedNumeral(s)
                \/ Len(s) > 1 /\ s[1] = "-" /\ IsUnsignedNumeral(Tail(s))
RECURSIVE ParseUnsigned(_)
ParseUnsigned(s) == IF Len(s) = 0 THEN 0
                    ELSE 10 * ParseUnsigned(SubSeq(s, 1, Len(s) - 1))
                         + DigitValue(s[Len(s)])
ParseLong(s) == IF s[1] = "-" THEN 0 - ParseUnsigned(Tail(s))
                ELSE ParseUnsigned(s)

StartsWith(s, p) == Len(s) >= Len(p) /\ SubSeq(s, 1, Len(p)) = p
\* s is p followed by the decimal numeral of v
CarriesStatus(s, p, v) ==
  /\ StartsWith(s, p)
  /\ IsNumeral(SubSeq(s, Len(p) + 1, Len(s)))
  /\ ParseLong(SubSeq(s, Len(p) + 1, Len(s))) = v
\* the decimal numeral of v occurs somewhere in s
ContainsStatus(s, v) ==
  \E i \in 1..Len(s) : \E j \in i..Len(s) :
    /\ IsNumeral(SubSeq(s, i, j))
    /\ ParseLong(SubSeq(s, i, j)) = v
    /\ (i = 1 \/ (~IsDigit(s[i - 1]) /\ s[i - 1] # "-"))
    /\ (j = Len(s) \/ ~IsDigit(s[j + 1]))

\* ------------------------------------------------------------------------
\* State
\* ------------------------------------------------------------------------
VARIABLES
  pc,                    \* position of main()
  sdlInitialized,        \* SDL subsystems are up (SDL_Init .. SDL_Quit)
  mainWindow,            \* SDL_Window* of main()
  windowHandle,          \* HWND taken from SDL_SysWMinfo
  direct3dSwapChain,     \* global ComPtr<IDXGISwapChain>
  direct3dDevice,        \* global ComPtr<ID3D11Device>
  direct3dDeviceContext, \* global ComPtr<ID3D11DeviceContext>
  mRenderTargetView,     \* global ComPtr<ID3D11RenderTargetView>
  mDepthStencilView,     \* global ComPtr<ID3D11DepthStencilView>
  locals,                \* ComPtr locals of the initializer now running
  omRenderTargets,       \* render target views bound to the output merger
  omDepthStencilView,    \* depth-stencil view bound to the output merger
  viewports,             \* viewports set on the rasterizer stage
  quit,                  \* bool quit of main()
  e,                     \* SDL_Event e of the current iteration
  exception,             \* what() of the Direct3dException in flight / caught
  caught,                \* number of times the catch block of main() ran
  exitCode,              \* value returned by main(), NoExit before that
  sdlLog,                \* lines written by SDL_Log
  calls,                 \* native calls issued so far, with their results
  nextHandle             \* next object the native API hands out

globals == <<direct3dSwapChain, direct3dDevice, direct3dDeviceContext,
             mRenderTargetView, mDepthStencilView>>
pipeline == <<omRenderTargets, omDepthStencilView, viewports>>
sdl == <<sdlInitialized, mainWindow, windowHandle>>
loop == <<quit, e>>
failure == <<exception, caught>>
vars == <<pc, sdl, globals, locals, pipeline, loop, failure, exitCode,
          sdlLog, calls, nextHandle>>

NoExit == -1
NoException == <<"<none>">>
NoEvent == [type |-> 0]

\* the ComPtr locals of InitializeSwapChain and
\* InitializeBackBufferAndDepthStencilView, all released
NoLocals == [dxgiDevice |-> NULL, dxgiAdapter |-> NULL, dxgiFactory |-> NULL,
             backBuffer |-> NULL, mDepthStencilBuffer |-> NULL]

\* the viewport InitializeViewport sets
Viewport == [TopLeftX |-> 0, TopLeftY |-> 0, Width |-> 800, Height |-> 600,
             MinDepth |-> 0, MaxDepth |-> 1]

Init ==
  /\ pc = "SDL_Init"
  /\ sdlInitialized = FALSE
  /\ mainWindow = NULL
  /\ windowHandle = NULL
  /\ direct3dSwapChain = NULL
  /\ direct3dDevice = NULL
  /\ direct3dDeviceContext = NULL
  /\ mRenderTargetView = NULL
  /\ mDepthStencilView = NULL
  /\ locals = NoLocals
  /\ omRenderTargets = << >>
  /\ omDepthStencilView = NULL
  /\ viewports = << >>
  /\ quit = FALSE
  /\ e = NoEvent
  /\ exception = NoException
  /\ caught = 0
  /\ exitCode = NoExit
  /\ sdlLog = << >>
  /\ calls = << >>
  /\ nextHandle = 1

\* ------------------------------------------------------------------------
\* Helpers of the actions
\* ------------------------------------------------------------------------
\* record a native call and the value it returned
Call(fn, ret) == calls' = Append(calls, [fn |-> fn, ret |-> ret])

SDL_Log(line) == sdlLog' = Append(sdlLog, line)

\* what a native creation call leaves in its out parameter: an object when
\* it returns S_OK, nothing when it fails, either for another success code
OutHandles(hr) == IF hr = S_OK THEN {nextHandle}
                  ELSE IF hr > 0 THEN {NULL, nextHandle}
                  ELSE {NULL}

\* throw Direct3dException(msg): the stack unwinds to the catch of main(),
\* releasing the ComPtr locals of the initializer
Throw(msg) ==
  /\ pc' = "thrown"
  /\ exception' = msg
  /\ locals' = NoLocals
  /\ UNCHANGED caught

\* ------------------------------------------------------------------------
\* main(): SDL start-up
\* ------------------------------------------------------------------------
SDLInit ==
  /\ pc = "SDL_Init"
  /\ \E r \in SdlInitResults :
       /\ Call("SDL_Init", r)
       /\ IF r # 0
          THEN /\ \E err \in SdlErrorStrings :
                    SDL_Log(LogSdlInitFailed \o err)
               /\ exitCode' = 1
               /\ pc' = "returned"
               /\ UNCHANGED sdlInitialized
          ELSE /\ sdlLog' = sdlLog \o <<LogSdlInitialized,
                                        LogInitializingWindow>>
               /\ sdlInitialized' = TRUE
               /\ pc' = "SDL_CreateWindow"
               /\ UNCHANGED exitCode
  /\ UNCHANGED <<mainWindow, windowHandle, globals, locals, pipeline, loop,
                 failure, nextHandle>>

SDLCreateWindow ==
  /\ pc = "SDL_CreateWindow"
  /\ \E w \in {NULL, nextHandle} :
       /\ Call("SDL_CreateWindow", w)
       /\ mainWindow' = w
       /\ IF w = NULL
          THEN /\ \E err \in SdlErrorStrings :
                    SDL_Log(LogWindowFailed \o err)
               /\ exitCode' = 1
               /\ pc' = "returned"
               /\ UNCHANGED nextHandle
          ELSE /\ SDL_Log(LogWindowCreated)
               /\ nextHandle' = nextHandle + 1
               /\ pc' = "SDL_GetWindowWMInfo"
               /\ UNCHANGED exitCode
  /\ UNCHANGED <<sdlInitialized, windowHandle, globals, locals, pipeline,
                 loop, failure>>

\* SDL_GetWindowWMInfo's result is not checked; when it fails the HWND read
\* from systemInformation is whatever the uninitialized struct held
SDLGetWindowWMInfo ==
  /\ pc = "SDL_GetWindowWMInfo"
  /\ \E ok \in BOOLEAN :
       /\ Call("SDL_GetWindowWMInfo", IF ok THEN 1 ELSE 0)
       /\ IF ok
          THEN /\ windowHandle' = nextHandle
               /\ nextHandle' = nextHandle + 1
          ELSE /\ windowHandle' \in {NULL, nextHandle}
               /\ nextHandle' = nextHandle + 1
  /\ SDL_Log(LogInitializingDirect3d)
  /\ pc' = "InitializeDeviceAndDeviceContext"
  /\ UNCHANGED <<sdlInitialized, mainWindow, globals, locals, pipeline, loop,
                 failure, exitCode>>

\* ------------------------------------------------------------------------
\* InitializeDirect3d: the four initializers, one action per checked call
\* ------------------------------------------------------------------------
\* "if (result != S_OK) throw Direct3dException(msg);" after a native call
Checked(hr, msg, next, newLocals) ==
  IF hr # S_OK
  THEN Throw(msg)
  ELSE /\ pc' = next
       /\ locals' = newLocals
       /\ UNCHANGED failure

InitializeDeviceAndDeviceContext ==
  /\ pc = "InitializeDeviceAndDeviceContext"
  /\ SDL_Log(LogInitializingDevice)
  /\ \E hr \in HResults : \E h \in OutHandles(hr) :
       /\ Call("D3D11CreateDevice", hr)
       /\ direct3dDevice' = h
       /\ direct3dDeviceContext' = IF h = NULL THEN NULL ELSE h + 1
       /\ nextHandle' = IF h = NULL THEN nextHandle ELSE nextHandle + 2
       /\ Checked(hr, MsgDeviceCreation \o to_string(hr),
                  "QueryDxgiDevice", locals)
  /\ UNCHANGED <<sdl, direct3dSwapChain, mRenderTargetView,
                 mDepthStencilView, pipeline, loop, exitCode>>

\* InitializeSwapChain: direct3dDevice.As(&dxgiDevice)
QueryDxgiDevice ==
  /\ pc = "QueryDxgiDevice"
  /\ SDL_Log(LogInitializingSwapChain)
  /\ \E hr \in HResults : \E h \in OutHandles(hr) :
       /\ Call("ID3D11Device::As<IDXGIDevice>", hr)
       /\ nextHandle' = IF h = NULL THEN nextHandle ELSE nextHandle + 1
       /\ Checked(hr, MsgDxgiDevice \o to_string(hr),
                  "GetParentAdapter", [locals EXCEPT !.dxgiDevice = h])
  /\ UNCHANGED <<sdl, globals, pipeline, loop, exitCode>>

\* variant: the adapter query's status is not checked
GetParentAdapter_Unchecked ==
  /\ pc = "GetParentAdapter"
  /\ \E hr \in HResults : \E h \in OutHandles(hr) :
       /\ Call("IDXGIDevice::GetParent", hr)
       /\ nextHandle' = IF h = NULL THEN nextHandle ELSE nextHandle + 1
       /\ pc' = "GetParentFactory"
       /\ locals' = [locals EXCEPT !.dxgiAdapter = h]
       /\ UNCHANGED failure
  /\ UNCHANGED <<sdl, globals, pipeline, loop, exitCode, sdlLog>>

\* InitializeSwapChain: dxgiDevice->GetParent(__uuidof(IDXGIAdapter), ..)
GetParentAdapter ==
  /\ pc = "GetParentAdapter"
  /\ \E hr \in HResults : \E h \in OutHandles(hr) :
       /\ Call("IDXGIDevice::GetParent", hr)
       /\ nextHandle' = IF h = NULL THEN nextHandle ELSE nextHandle + 1
       /\ Checked(hr, MsgDxgiAdapter \o to_string(hr),
                  "GetParentFactory", [locals EXCEPT !.dxgiAdapter = h])
  /\ UNCHANGED <<sdl, globals, pipeline, loop, exitCode, sdlLog>>

\* InitializeSwapChain: dxgiAdapter->GetParent(__uuidof(IDXGIFactory), ..)
GetParentFactory ==
  /\ pc = "GetParentFactory"
  /\ \E hr \in HResults : \E h \in OutHandles(hr) :
       /\ Call("IDXGIAdapter::GetParent", hr)
       /\ nextHandle' = IF h = NULL THEN nextHandle ELSE nextHandle + 1
       /\ Checked(hr, MsgDxgiFactory \o to_string(hr),
                  "CreateSwapChain", [locals EXCEPT !.dxgiFactory = h])
  /\ UNCHANGED <<sdl, globals, pipeline, loop, exitCode, sdlLog>>

\* InitializeSwapChain: dxgiFactory->CreateSwapChain(..); on success the
\* function returns and its ComPtr locals are released
CreateSwapChain ==
  /\ pc = "CreateSwapChain"
  /\ \E hr \in HResults : \E h \in OutHandles(hr) :
       /\ Call("IDXGIFactory::CreateSwapChain", hr)
       /\ direct3dSwapChain' = h
       /\ nextHandle' = IF h = NULL THEN nextHandle ELSE nextHandle + 1
       /\ Checked(hr, MsgSwapChain \o to_string(hr), "GetBuffer", NoLocals)
  /\ UNCHANGED <<sdl, direct3dDevice, direct3dDeviceContext,
                 mRenderTargetView, mDepthStencilView, pipeline, loop,
                 exitCode, sdlLog>>

\* InitializeBackBufferAndDepthStencilView: direct3dSwapChain->GetBuffer
GetBuffer ==
  /\ pc = "GetBuffer"
  /\ \E hr \in HResults : \E h \in OutHandles(hr) :
       /\ Call("IDXGISwapChain::GetBuffer", hr)
       /\ nextHandle' = IF h = NULL THEN nextHandle ELSE nextHandle + 1
       /\ Checked(hr, MsgGetBuffer \o to_string(hr),
                  "CreateRenderTargetView", [locals EXCEPT !.backBuffer = h])
  /\ UNCHANGED <<sdl, globals, pipeline, loop, exitCode, sdlLog>>

CreateRenderTargetView ==
  /\ pc = "CreateRenderTargetView"
  /\ \E hr \in HResults : \E h \in OutHandles(hr) :
       /\ Call("ID3D11Device::CreateRenderTargetView", hr)
       /\ mRenderTargetView' = h
       /\ nextHandle' = IF h = NULL THEN nextHandle ELSE nextHandle + 1
       /\ Checked(hr, MsgRenderTargetView \o to_string(hr),
                  "CreateTexture2D", locals)
  /\ UNCHANGED <<sdl, direct3dSwapChain, direct3dDevice,
                 direct3dDeviceContext, mDepthStencilView, pipeline, loop,
                 exitCode, sdlLog>>

\* The message is built as  "literal" + texture2dCreationResult : pointer
\* arithmetic on the literal, not std::to_string.  An offset inside the
\* literal gives its suffix; an offset outside it is undefined behaviour:
\* the std::string constructor reads whatever is there or faults.
CreateTexture2D ==
  /\ pc = "CreateTexture2D"
  /\ \E hr \in HResults : \E h \in OutHandles(hr) :
       /\ Call("ID3D11Device::CreateTexture2D", hr)
       /\ nextHandle' = IF h = NULL THEN nextHandle ELSE nextHandle + 1
       /\ IF hr = S_OK
          THEN /\ pc' = "CreateDepthStencilView"
               /\ locals' = [locals EXCEPT !.mDepthStencilBuffer = h]
               /\ UNCHANGED failure
          ELSE IF InRange(MsgTexture2D, hr)
          THEN Throw(LiteralPlus(MsgTexture2D, hr))
          ELSE \/ \E garbage \in IndeterminateStrings : Throw(garbage)
               \/ /\ pc' = "crashed"
                  /\ UNCHANGED <<locals, failure>>
  /\ UNCHANGED <<sdl, globals, pipeline, loop, exitCode, sdlLog>>

\* variant: the depth-stencil view's status is not checked
CreateDepthStencilView_Unchecked ==
  /\ pc = "CreateDepthStencilView"
  /\ \E hr \in HResults : \E h \in OutHandles(hr) :
       /\ Call("ID3D11Device::CreateDepthStencilView", hr)
       /\ mDepthStencilView' = h
       /\ nextHandle' = IF h = NULL THEN nextHandle ELSE nextHandle + 1
       /\ pc' = "OMSetRenderTargets"
       /\ UNCHANGED <<locals, failure>>
  /\ UNCHANGED <<sdl, direct3dSwapChain, direct3dDevice,
                 direct3dDeviceContext, mRenderTargetView, pipeline, loop,
                 exitCode, sdlLog>>

CreateDepthStencilView ==
  /\ pc = "CreateDepthStencilView"
  /\ \E hr \in HResults : \E h \in OutHandles(hr) :
       /\ Call("ID3D11Device::CreateDepthStencilView", hr)
       /\ mDepthStencilView' = h
       /\ nextHandle' = IF h = NULL THEN nextHandle ELSE nextHandle + 1
       /\ Checked(hr, MsgDepthStencilView \o to_string(hr),
                  "OMSetRenderTargets", locals)
  /\ UNCHANGED <<sdl, direct3dSwapChain, direct3dDevice,
                 direct3dDeviceContext, mRenderTargetView, pipeline, loop,
                 exitCode, sdlLog>>

\* variant: no depth-stencil view is passed to OMSetRenderTargets
OMSetRenderTargets_NoDepth ==
  /\ pc = "OMSetRenderTargets"
  /\ Call("ID3D11DeviceContext::OMSetRenderTargets", 0)
  /\ omRenderTargets' = <<mRenderTargetView>>
  /\ omDepthStencilView' = NULL
  /\ locals' = NoLocals
  /\ pc' = "InitializeViewport"
  /\ UNCHANGED <<sdl, globals, viewports, loop, failure, exitCode, sdlLog,
                 nextHandle>>

\* OMSetRenderTargets(1, mRenderTargetView.GetAddressOf(),
\* mDepthStencilView.Get()); the initializer then returns
OMSetRenderTargets ==
  /\ pc = "OMSetRenderTargets"
  /\ Call("ID3D11DeviceContext::OMSetRenderTargets", 0)
  /\ omRenderTargets' = <<mRenderTargetView>>
  /\ omDepthStencilView' = mDepthStencilView
  /\ locals' = NoLocals
  /\ pc' = "InitializeViewport"
  /\ UNCHANGED <<sdl, globals, viewports, loop, failure, exitCode, sdlLog,
                 nextHandle>>

\* RSSetViewports(1, &vp); InitializeDirect3d returns, main sets quit = false
InitializeViewport ==
  /\ pc = "InitializeViewport"
  /\ Call("ID3D11DeviceContext::RSSetViewports", 0)
  /\ viewports' = <<Viewport>>
  /\ quit' = FALSE
  /\ pc' = "while"
  /\ UNCHANGED <<sdl, globals, locals, omRenderTargets, omDepthStencilView,
                 e, failure, exitCode, sdlLog, nextHandle>>

\* variant: the catch block returns 0
CatchDirect3dException_Return0 ==
  /\ pc = "thrown"
  /\ caught' = caught + 1
  /\ SDL_Log(LogDirect3dError \o exception)
  /\ exitCode' = 0
  /\ pc' = "returned"
  /\ UNCHANGED <<sdl, globals, locals, pipeline, loop, exception, calls,
                 nextHandle>>

\* catch (Direct3dException ex) { SDL_Log(.., ex.what()); return 1; }
CatchDirect3dException ==
  /\ pc = "thrown"
  /\ caught' = caught + 1
  /\ SDL_Log(LogDirect3dError \o exception)
  /\ exitCode' = 1
  /\ pc' = "returned"
  /\ UNCHANGED <<sdl, globals, locals, pipeline, loop, exception, calls,
                 nextHandle>>

\* ------------------------------------------------------------------------
\* main(): the frame loop
\* ------------------------------------------------------------------------
Count(fn) == Cardinality({i \in DOMAIN calls : calls[i].fn = fn})

\* while (!quit)
LoopTest ==
  /\ pc = "while"
  /\ pc' = IF quit THEN "SDL_Quit" ELSE "SDL_PollEvent"
  /\ UNCHANGED <<sdl, globals, locals, pipeline, loop, failure, exitCode,
                 sdlLog, calls, nextHandle>>

\* variant: e.type is looked at without testing SDL_PollEvent's result
PollEvent_NoPendingCheck ==
  /\ pc = "SDL_PollEvent"
  /\ Count("SDL_PollEvent") < MaxFrames
  /\ \E r \in {0, 1} : \E t \in EventTypes :
       /\ Call("SDL_PollEvent", [pending |-> r, type |-> t])
       /\ e' = [type |-> t]
       /\ quit' = IF t = SDL_QUIT THEN TRUE ELSE quit
  /\ pc' = "ClearRenderTargetView"
  /\ UNCHANGED <<sdl, globals, locals, pipeline, failure, exitCode, sdlLog,
                 nextHandle>>

\* variant: the loop is left as soon as the quit event is seen
PollEvent_Break ==
  /\ pc = "SDL_PollEvent"
  /\ Count("SDL_PollEvent") < MaxFrames
  /\ \E r \in {0, 1} : \E t \in EventTypes :
       /\ Call("SDL_PollEvent", [pending |-> r, type |-> t])
       /\ e' = [type |-> t]
       /\ quit' = IF r # 0 /\ t = SDL_QUIT THEN TRUE ELSE quit
       /\ pc' = IF r # 0 /\ t = SDL_QUIT THEN "SDL_Quit"
                ELSE "ClearRenderTargetView"
  /\ UNCHANGED <<sdl, globals, locals, pipeline, failure, exitCode, sdlLog,
                 nextHandle>>

\* SDL_Event e; if (SDL_PollEvent(&e) != 0) if (e.type == SDL_QUIT) quit = true;
\* e is uninitialized when no event is pending: its type is then anything
PollEvent ==
  /\ pc = "SDL_PollEvent"
  /\ Count("SDL_PollEvent") < MaxFrames
  /\ \E r \in {0, 1} : \E t \in EventTypes :
       /\ Call("SDL_PollEvent", [pending |-> r, type |-> t])
       /\ e' = [type |-> t]
       /\ quit' = IF r # 0 /\ t = SDL_QUIT THEN TRUE ELSE quit
  /\ pc' = "ClearRenderTargetView"
  /\ UNCHANGED <<sdl, globals, locals, pipeline, failure, exitCode, sdlLog,
                 nextHandle>>

ClearRenderTargetView ==
  /\ pc = "ClearRenderTargetView"
  /\ Call("ID3D11DeviceContext::ClearRenderTargetView", mRenderTargetView)
  /\ pc' = "ClearDepthStencilView"
  /\ UNCHANGED <<sdl, globals, locals, pipeline, loop, failure, exitCode,
                 sdlLog, nextHandle>>

ClearDepthStencilView ==
  /\ pc = "ClearDepthStencilView"
  /\ Call("ID3D11DeviceContext::ClearDepthStencilView", mDepthStencilView)
  /\ pc' = "Present"
  /\ UNCHANGED <<sdl, globals, locals, pipeline, loop, failure, exitCode,
                 sdlLog, nextHandle>>

\* direct3dSwapChain->Present(0, 0); its result is not looked at
Present ==
  /\ pc = "Present"
  /\ \E hr \in PresentResults : Call("IDXGISwapChain::Present", hr)
  /\ pc' = "while"
  /\ UNCHANGED <<sdl, globals, locals, pipeline, loop, failure, exitCode,
                 sdlLog, nextHandle>>

\* SDL_Quit(); return 0;
SDLQuit ==
  /\ pc = "SDL_Quit"
  /\ Call("SDL_Quit", 0)
  /\ sdlInitialized' = FALSE
  /\ exitCode' = 0
  /\ pc' = "returned"
  /\ UNCHANGED <<mainWindow, windowHandle, globals, locals, pipeline, loop,
                 failure, sdlLog, nextHandle>>

Next ==
  \/ SDLInit
  \/ SDLCreateWindow
  \/ SDLGetWindowWMInfo
  \/ InitializeDeviceAndDeviceContext
  \/ QueryDxgiDevice
  \/ GetParentAdapter
  \/ GetParentFactory
  \/ CreateSwapChain
  \/ GetBuffer
  \/ CreateRenderTargetView
  \/ CreateTexture2D
  \/ CreateDepthStencilView
  \/ OMSetRenderTargets
  \/ InitializeViewport
  \/ CatchDirect3dException
  \/ LoopTest
  \/ PollEvent
  \/ ClearRenderTargetView
  \/ ClearDepthStencilView
  \/ Present
  \/ SDLQuit

Spec == Init /\ [][Next]_vars

\* ------------------------------------------------------------------------
\* Vocabulary of the properties
\* ------------------------------------------------------------------------
Last(s) == s[Len(s)]

Calls(fn) == {i \in DOMAIN calls : calls[i].fn = fn}
Issued(fn) == Calls(fn) # {}

\* the checked native calls of InitializeDirect3d, in program order, and the
\* two unchecked calls that end the third and the fourth initializer
InitSequence ==
  <<"D3D11CreateDevice",
    "ID3D11Device::As<IDXGIDevice>",
    "IDXGIDevice::GetParent",
    "IDXGIAdapter::GetParent",
    "IDXGIFactory::CreateSwapChain",
    "IDXGISwapChain::GetBuffer",
    "ID3D11Device::CreateRenderTargetView",
    "ID3D11Device::CreateTexture2D",
    "ID3D11Device::CreateDepthStencilView",
    "ID3D11DeviceContext::OMSetRenderTargets",
    "ID3D11DeviceContext::RSSetViewports">>
InitCalls == {InitSequence[k] : k \in DOMAIN InitSequence}
CheckedCalls == {InitSequence[k] : k \in 1..9}
SwapChainSteps == [k \in 1..4 |-> InitSequence[k + 1]]
FrameCalls == {"ID3D11DeviceContext::ClearRenderTargetView",
               "ID3D11DeviceContext::ClearDepthStencilView",
               "IDXGISwapChain::Present"}
LoopPcs == {"while", "SDL_PollEvent", "ClearRenderTargetView",
            "ClearDepthStencilView", "Present", "SDL_Quit"}

\* a checked call of InitializeDirect3d returned something else than S_OK
\* (it is then the last call issued)
InitFailed ==
  /\ calls # << >>
  /\ Last(calls).fn \in CheckedCalls
  /\ Last(calls).ret # S_OK
FailedCall == Last(calls).fn
FailedStatus == Last(calls).ret

\* the literal each checked call's message starts with
MessageOf(fn) ==
  CASE fn = "D3D11CreateDevice" -> MsgDeviceCreation
    [] fn = "ID3D11Device::As<IDXGIDevice>" -> MsgDxgiDevice
    [] fn = "IDXGIDevice::GetParent" -> MsgDxgiAdapter
    [] fn = "IDXGIAdapter::GetParent" -> MsgDxgiFactory
    [] fn = "IDXGIFactory::CreateSwapChain" -> MsgSwapChain
    [] fn = "IDXGISwapChain::GetBuffer" -> MsgGetBuffer
    [] fn = "ID3D11Device::CreateRenderTargetView" -> MsgRenderTargetView
    [] fn = "ID3D11Device::CreateTexture2D" -> MsgTexture2D
    [] fn = "ID3D11Device::CreateDepthStencilView" -> MsgDepthStencilView

IsQuitPoll(c) == c.fn = "SDL_PollEvent" /\ c.ret.pending # 0
                 /\ c.ret.type = SDL_QUIT
FirstPoll == CHOOSE i \in Calls("SDL_PollEvent") :
               \A j \in Calls("SDL_PollEvent") : i <= j
FirstPollIsQuit == Issued("SDL_PollEvent") /\ IsQuitPoll(calls[FirstPoll])
CleanQuit == pc = "returned" /\ exitCode = 0

GlobalsNonNull ==
  /\ direct3dDevice # NULL
  /\ direct3dDeviceContext # NULL
  /\ direct3dSwapChain # NULL
  /\ mRenderTargetView # NULL
  /\ mDepthStencilView # NULL

\* ------------------------------------------------------------------------
\* C1
\* ------------------------------------------------------------------------
\* C1 (as stated): when initialization succeeds and the first SDL_PollEvent
\* returns a quit event, no ClearRenderTargetView, ClearDepthStencilView or
\* Present call has been issued when main returns 0.
C1_ZeroCyclesOnFirstQuit ==
  (CleanQuit /\ FirstPollIsQuit) =>
    \A fn \in FrameCalls : ~Issued(fn)

\* C1 (amended): when initialization succeeds and the first SDL_PollEvent
\* returns a quit event, the iteration that polled it still runs to its end:
\* exactly one ClearRenderTargetView, one ClearDepthStencilView and one
\* Present are issued, in that order, right after the poll and before
\* SDL_Quit, and main returns 0.
C1_OneCycleOnFirstQuit ==
  (CleanQuit /\ FirstPollIsQuit) =>
    /\ \A fn \in FrameCalls : Cardinality(Calls(fn)) = 1
    /\ Cardinality(Calls("SDL_PollEvent")) = 1
    /\ Len(calls) = FirstPoll + 4
    /\ calls[FirstPoll + 1].fn = "ID3D11DeviceContext::ClearRenderTargetView"
    /\ calls[FirstPoll + 2].fn = "ID3D11DeviceContext::ClearDepthStencilView"
    /\ calls[FirstPoll + 3].fn = "IDXGISwapChain::Present"
    /\ calls[FirstPoll + 4].fn = "SDL_Quit"

C1_Witness == CleanQuit /\ FirstPollIsQuit

\* ------------------------------------------------------------------------
\* C2
\* ------------------------------------------------------------------------
SdlInitFailed == Issued("SDL_Init") /\ calls[1].ret # 0
WindowFailed == Issued("SDL_CreateWindow") /\ mainWindow = NULL
Direct3dFailed == caught > 0

\* C2: main returns 0 exactly when the frame loop ended by observing a quit
\* event, returns 1 when SDL_Init returned non-zero, when SDL_CreateWindow
\* returned null and when InitializeDirect3d threw Direct3dException, and
\* returns nothing else.
C2_ExitCodes ==
  /\ (pc = "returned") <=> (exitCode # NoExit)
  /\ pc = "returned" =>
       /\ exitCode \in {0, 1}
       /\ (exitCode = 0) <=>
            (quit /\ \E i \in Calls("SDL_PollEvent") :
                       /\ IsQuitPoll(calls[i])
                       /\ \A j \in Calls("SDL_PollEvent") : j <= i)
       /\ (exitCode = 1) <=> (SdlInitFailed \/ WindowFailed \/ Direct3dFailed)
       /\ SdlInitFailed => exitCode = 1
       /\ WindowFailed => exitCode = 1
       /\ Direct3dFailed => exitCode = 1

C2_Witness == pc = "returned" /\ exitCode = 1 /\ Direct3dFailed

\* ------------------------------------------------------------------------
\* C3
\* ------------------------------------------------------------------------
\* C3: quit changes only from false to true and only in a step that polls an
\* event of type SDL_QUIT; a poll that returns another event, or no event,
\* leaves quit false; quit is never reset.
C3_QuitOnlyOnQuitEvent ==
  [][ /\ (quit' # quit) =>
           /\ ~quit /\ quit'
           /\ pc = "SDL_PollEvent"
           /\ Len(calls') = Len(calls) + 1
           /\ IsQuitPoll(Last(calls'))
      /\ (pc = "SDL_PollEvent" /\ pc' # pc) =>
           /\ Last(calls').fn = "SDL_PollEvent"
           /\ quit' <=> IsQuitPoll(Last(calls'))
    ]_vars

C3_Witness ==
  /\ quit
  /\ Cardinality(Calls("SDL_PollEvent")) >= 2
  /\ \E i \in Calls("SDL_PollEvent") :
       calls[i].ret.pending = 0 /\ calls[i].ret.type = SDL_QUIT

\* ------------------------------------------------------------------------
\* C4
\* ------------------------------------------------------------------------
\* C4: the four checked steps of InitializeSwapChain run in the order
\* As<IDXGIDevice>, IDXGIDevice::GetParent, IDXGIAdapter::GetParent,
\* CreateSwapChain; each is issued right after its predecessor returned
\* S_OK, and a step that returns anything else throws Direct3dException and
\* is the last native call issued.
C4_SwapChainFailFast ==
  \A k \in 1..4 : \A i \in Calls(SwapChainSteps[k]) :
    /\ Cardinality(Calls(SwapChainSteps[k])) = 1
    /\ i > 1
    /\ calls[i - 1].fn = InitSequence[k]
    /\ calls[i - 1].ret = S_OK
    /\ calls[i].ret # S_OK =>
         /\ i = Len(calls)
         /\ pc \in {"thrown", "returned"}
         /\ StartsWith(exception, MessageOf(SwapChainSteps[k]))
         /\ \A m \in (k + 1)..4 : ~Issued(SwapChainSteps[m])

C4_Witness ==
  /\ pc = "thrown"
  /\ FailedCall = "IDXGIDevice::GetParent"
  /\ ~Issued("IDXGIAdapter::GetParent")
  /\ ~Issued("IDXGIFactory::CreateSwapChain")

\* ------------------------------------------------------------------------
\* C5
\* ------------------------------------------------------------------------
DeviceCreationFailed ==
  /\ Issued("D3D11CreateDevice")
  /\ InitFailed
  /\ FailedCall = "D3D11CreateDevice"

\* 0x887A0004 as std::to_string prints it
Decimal887A0004 == <<"-","2","0","0","5","2","7","0","5","2","4">>

\* C5: whenever D3D11CreateDevice returns a status other than S_OK, a
\* Direct3dException is thrown whose message contains the decimal numeral of
\* that status; main logs a line containing it and returns 1.  For
\* 0x887A0004 the numeral is -2005270524.
C5_DeviceFailureMessage ==
  DeviceCreationFailed =>
    /\ pc \in {"thrown", "returned"}
    /\ StartsWith(exception, MessageOf("D3D11CreateDevice"))
    /\ ContainsStatus(exception, FailedStatus)
    /\ FailedStatus = AsHRESULT(<<34938, 4>>) =>
         SubSeq(exception, Len(exception) - 10, Len(exception))
           = Decimal887A0004
    /\ pc = "returned" =>
         /\ exitCode = 1
         /\ caught = 1
         /\ ContainsStatus(Last(sdlLog), FailedStatus)
         /\ Last(sdlLog) = LogDirect3dError \o exception

C5_Witness ==
  /\ DeviceCreationFailed
  /\ FailedStatus = AsHRESULT(<<34938, 4>>)
  /\ pc = "returned"

\* ------------------------------------------------------------------------
\* C6
\* ------------------------------------------------------------------------
BackBufferCalls == {InitSequence[k] : k \in 6..9}

\* C6: when GetBuffer, CreateRenderTargetView, CreateTexture2D or
\* CreateDepthStencilView returns a status other than S_OK, the program
\* throws Direct3dException whose message is the literal of that call
\* followed by the status the call returned.
C6_CallSpecificMessageWithStatus ==
  (InitFailed /\ FailedCall \in BackBufferCalls) =>
    /\ pc \in {"thrown", "returned"}
    /\ CarriesStatus(exception, MessageOf(FailedCall), FailedStatus)

\* ------------------------------------------------------------------------
\* C7
\* ------------------------------------------------------------------------
Direct3dInitialized == pc \in LoopPcs \/ CleanQuit

\* C7: once InitializeDirect3d has returned, the output merger holds exactly
\* one render target view, mRenderTargetView, and the depth-stencil view
\* mDepthStencilView, both non-null, and no step of the frame loop changes
\* the binding or the two views.
C7_OutputMergerBinding ==
  /\ [](Direct3dInitialized =>
          /\ Len(omRenderTargets) = 1
          /\ omRenderTargets[1] = mRenderTargetView
          /\ omDepthStencilView = mDepthStencilView
          /\ mRenderTargetView # NULL
          /\ mDepthStencilView # NULL
          /\ mRenderTargetView # mDepthStencilView)
  /\ [][Direct3dInitialized =>
          UNCHANGED <<omRenderTargets, omDepthStencilView,
                      mRenderTargetView, mDepthStencilView>>]_vars

C7_Witness ==
  /\ pc = "Present"
  /\ Cardinality(Calls("IDXGISwapChain::Present")) >= 1
  /\ Len(omRenderTargets) = 1

\* ------------------------------------------------------------------------
\* C8
\* ------------------------------------------------------------------------
\* the calls of InitializeDirect3d issued so far, in the order issued
RECURSIVE InitCallsOf(_)
InitCallsOf(s) ==
  IF s = << >> THEN << >>
  ELSE IF Last(s).fn \in InitCalls
       THEN Append(InitCallsOf(SubSeq(s, 1, Len(s) - 1)), Last(s).fn)
       ELSE InitCallsOf(SubSeq(s, 1, Len(s) - 1))

\* C8: the calls of the four initializers are issued once each in program
\* order (device/context, swap chain, back buffer and depth-stencil views,
\* viewport); when a clear or present call has been issued, all of them have
\* been issued before it and returned S_OK and the five global handles are
\* non-null; after an initialization failure the frame loop is not entered.
C8_InitBeforeFrames ==
  /\ InitCallsOf(calls) = SubSeq(InitSequence, 1, Len(InitCallsOf(calls)))
  /\ \A i \in DOMAIN calls : calls[i].fn \in FrameCalls =>
       /\ GlobalsNonNull
       /\ viewports = <<Viewport>>
       /\ \A k \in DOMAIN InitSequence :
            \E j \in 1..(i - 1) :
              calls[j].fn = InitSequence[k] /\ calls[j].ret = S_OK
  /\ pc \in LoopPcs => (GlobalsNonNull /\ exception = NoException /\ caught = 0)
  /\ (exception # NoException \/ caught > 0 \/ pc = "crashed" \/ exitCode = 1) =>
       /\ pc \notin LoopPcs
       /\ \A fn \in FrameCalls \cup {"SDL_PollEvent"} : ~Issued(fn)

C8_Witness ==
  /\ pc = "while"
  /\ Cardinality(Calls("IDXGISwapChain::Present")) = 2

\* ------------------------------------------------------------------------
\* C9
\* ------------------------------------------------------------------------
\* position in InitSequence of the call that populates each global handle
PopulatedBy ==
  <<[at |-> 1, handle |-> direct3dDevice],
    [at |-> 1, handle |-> direct3dDeviceContext],
    [at |-> 5, handle |-> direct3dSwapChain],
    [at |-> 7, handle |-> mRenderTargetView],
    [at |-> 9, handle |-> mDepthStencilView]>>
FailedAt == CHOOSE k \in 1..9 : InitSequence[k] = FailedCall

\* C9: when a checked native call of the initialization has failed and the
\* program has stopped, the call was issued once, the Direct3dException was
\* caught once, main returned 1, the handles populated before the failing
\* call are populated and those a later call would populate are null.
C9_FailureCaughtOnceHandlesKept ==
  (InitFailed /\ pc # "thrown") =>
    /\ pc = "returned"
    /\ exitCode = 1
    /\ caught = 1
    /\ Cardinality(Calls(FailedCall)) = 1
    /\ \A g \in DOMAIN PopulatedBy :
         /\ PopulatedBy[g].at < FailedAt => PopulatedBy[g].handle # NULL
         /\ PopulatedBy[g].at > FailedAt => PopulatedBy[g].handle = NULL

\* ------------------------------------------------------------------------
\* C10
\* ------------------------------------------------------------------------
\* C10: whenever main has returned after SDL_Init succeeded, SDL_Quit has
\* been called.
C10_SdlQuitBeforeReturn ==
  (pc = "returned" /\ Issued("SDL_Init") /\ calls[1].ret = 0) =>
    (Issued("SDL_Quit") /\ ~sdlInitialized)

====
